---- MODULE Spec2Model ----
(***************************************************************************)
(* Model of the proto encoder / iterator of src/dbnode/encoding/proto:     *)
(* a streaming codec that writes the double fields of a message with the   *)
(* M3TSZ XOR scheme and the remaining fields as a protobuf delta.          *)
(*                                                                         *)
(* A 64-bit word is a sequence of 64 bits, most significant bit first.     *)
(* The output stream is the sequence of bits written so far.  A message is *)
(* a record [v, unk]: v maps the field numbers its descriptor knows to     *)
(* their values (proto3: a field holding its default value is unset), unk  *)
(* is the set of unknown field numbers it carries.  A nil pointer is <<>>, *)
(* a non-nil one <<x>>.                                                    *)
(***************************************************************************)
EXTENDS Integers, Sequences, FiniteSets, TLC

VARIABLES enc, ret, it, itRet, hist, lastRecord, caller, bs,
          pr, gr, threads, callLog

vars == <<enc, ret, it, itRet, hist, lastRecord, caller, bs, pr, gr, threads, callLog>>

\* The state of the codec and the state of the cost reporters.
codecVars == <<enc, ret, it, itRet, hist, lastRecord, caller, bs>>
reporterVars == <<pr, gr, threads, callLog>>

(* ------------------------------ bounds --------------------------------- *)

\* Encode calls that succeed on one encoder.
MaxRecords == 3
\* Bytes a reader may be short of the bytes the encoder returned.
MaxCut == 1
\* Small field tags drawn for the bitset lists.
MaxTag == 4
\* Length of the bitset lists.
MaxListLen == 2
\* Next calls made after the iterator has ended.
MaxExtraNext == 1

(* --------------------------- bits and words ---------------------------- *)

WordBits == 64
ByteBits == 8

Nil == <<>>

ZeroWord == [i \in 1..WordBits |-> 0]

\* The word whose set bits are the positions in S (bit 0 least significant).
WordOf(S) == [i \in 1..WordBits |-> IF (WordBits - i) \in S THEN 1 ELSE 0]

Pow2(n) == 2 ^ n

\* n as k bits, most significant first.
NumToBits(n, k) == [i \in 1..k |-> (n \div Pow2(k - i)) % 2]

RECURSIVE BitsToNum(_)
BitsToNum(b) ==
    IF b = <<>> THEN 0 ELSE 2 * BitsToNum(SubSeq(b, 1, Len(b) - 1)) + b[Len(b)]

XorWord(a, b) == [i \in 1..WordBits |-> (a[i] + b[i]) % 2]

(* float32 values are 32-element bit sequences: sign, 8 exponent bits, 23
   fraction bits. *)
FloatBits == 32

ZeroFloat == [i \in 1..FloatBits |-> 0]

\* The float32 whose set bits are the positions in S (bit 0 least significant).
FloatOf(S) == [i \in 1..FloatBits |-> IF (FloatBits - i) \in S THEN 1 ELSE 0]

Zeros(n) == [i \in 1..n |-> 0]

\* float64(f): every float32 is a float64; subnormals are normalised.
Float64(f) ==
    LET e == BitsToNum(SubSeq(f, 2, 9))
        man == SubSeq(f, 10, 32)
        ones == {i \in 1..23 : man[i] = 1}
        lead == CHOOSE i \in ones : \A j \in ones : i <= j
    IN  IF e = 0 /\ ones = {} THEN <<f[1]>> \o Zeros(63)
        ELSE IF e = 255 THEN <<f[1]>> \o NumToBits(2047, 11) \o man \o Zeros(29)
        ELSE IF e = 0
        THEN <<f[1]>> \o NumToBits(897 - lead, 11) \o SubSeq(man, lead + 1, 23)
                      \o Zeros(29 + lead)
        ELSE <<f[1]>> \o NumToBits(e + 896, 11) \o man \o Zeros(29)

\* The first 23 of bits as a number, rounded to nearest, ties to even.
RoundTo23(bits) ==
    LET q == BitsToNum(SubSeq(bits, 1, 23))
        sticky == \E i \in 25..Len(bits) : bits[i] = 1
    IN  IF bits[24] = 1 /\ (sticky \/ q % 2 = 1) THEN q + 1 ELSE q

\* float32(v): the nearest float32; too large gives infinity, NaN stays NaN.
Float32(v) ==
    LET e == BitsToNum(SubSeq(v, 2, 12))
        man == SubSeq(v, 13, 64)
        inf == 255 * Pow2(23)
        normal == (e - 896) * Pow2(23) + RoundTo23(man)
        magnitude ==
            IF e = 2047
            THEN IF man = Zeros(52) THEN inf
                 ELSE inf + Pow2(22) + BitsToNum(SubSeq(man, 2, 23))
            ELSE IF e - 896 >= 255 THEN inf
            ELSE IF e > 896 THEN IF normal >= inf THEN inf ELSE normal
            ELSE IF e = 0 THEN 0
            ELSE RoundTo23(Zeros(896 - e) \o <<1>> \o man)
    IN  <<v[1]>> \o NumToBits(magnitude, 31)

\* v >> k and v << k on uint64.
ShiftRight(v, k) == [i \in 1..WordBits |-> IF i > k THEN v[i - k] ELSE 0]
ShiftLeft(v, k) == [i \in 1..WordBits |-> IF i + k <= WordBits THEN v[i + k] ELSE 0]

\* The uint64 a read of n bits returns: the bits in the low n positions.
BitsToWord(b) == [i \in 1..WordBits |->
                    IF i > WordBits - Len(b) THEN b[i - (WordBits - Len(b))] ELSE 0]

LeadingAndTrailingZeros(v) ==
    IF v = ZeroWord THEN <<WordBits, 0>>
    ELSE LET ones == {i \in 1..WordBits : v[i] = 1}
             first == CHOOSE i \in ones : \A j \in ones : i <= j
             last == CHOOSE i \in ones : \A j \in ones : j <= i
         IN  <<first - 1, WordBits - last>>

RECURSIVE Flatten(_)
Flatten(ss) == IF ss = <<>> THEN <<>> ELSE Head(ss) \o Flatten(Tail(ss))

(* ------------------------------ OStream -------------------------------- *)

WriteBit(s, b) == Append(s, b)

\* The low n bits of word v, most significant first.
WriteBits(s, v, n) == s \o SubSeq(v, WordBits - n + 1, WordBits)

WriteBytes(s, bytes) == s \o Flatten([i \in 1..Len(bytes) |-> NumToBits(bytes[i], ByteBits)])

\* The populated bytes of the buffer: the unused low bits of the tail byte are 0.
Rawbytes(s) == s \o [i \in 1..((ByteBits - (Len(s) % ByteBits)) % ByteBits) |-> 0]

(* ------------------------------ varint --------------------------------- *)

RECURSIVE PutUvarint(_)
PutUvarint(x) ==
    IF x < 128 THEN <<x>> ELSE <<(x % 128) + 128>> \o PutUvarint(x \div 128)

RECURSIVE Uvarint(_)
Uvarint(bytes) ==
    IF bytes = <<>> THEN 0
    ELSE IF Head(bytes) < 128 THEN Head(bytes)
    ELSE (Head(bytes) - 128) + 128 * Uvarint(Tail(bytes))

(* ------------------------- schema and messages -------------------------- *)

\* The schema the encoder and the iterator are bound to: the field numbers in
\* schema order, 1 and 2 of type double, 3 of type string.
VLSchema == <<1, 2, 3>>

\* A field some callers' messages know and the schema does not.
ExtraField == 5

\* A field of type float (32 bits), for schemas that declare one.
FloatField == 6

FieldType(t) ==
    CASE t \in {1, 2} -> "double"
      [] t = 3 -> "string"
      [] t = FloatField -> "float"
      [] OTHER -> "int64"

GetDefaultValue(t) ==
    CASE FieldType(t) = "double" -> ZeroWord
      [] FieldType(t) = "float" -> ZeroFloat
      [] FieldType(t) = "string" -> <<>>
      [] OTHER -> 0

SeqRange(s) == {s[i] : i \in 1..Len(s)}

\* dynamic.NewMessage(desc): no field set, no unknown field.
NewMessage(desc) == [v |-> [t \in SeqRange(desc) |-> GetDefaultValue(t)], unk |-> {}]

GetKnownFields(m) == DOMAIN m.v
GetUnknownFields(m) == m.unk
GetFieldByNumber(m, t) == m.v[t]
SetFieldByNumber(m, t, x) == [m EXCEPT !.v[t] = x]
ClearFieldByNumber(m, t) ==
    IF t \in DOMAIN m.v THEN [m EXCEPT !.v[t] = GetDefaultValue(t)] ELSE m

\* The set S of numbers in ascending order.
RECURSIVE SortedSeq(_)
SortedSeq(S) ==
    IF S = {} THEN <<>>
    ELSE LET lo == CHOOSE x \in S : \A y \in S : x <= y
         IN  <<lo>> \o SortedSeq(S \ {lo})

WireType(t) ==
    CASE FieldType(t) = "double" -> 1
      [] FieldType(t) = "string" -> 2
      [] FieldType(t) = "float" -> 5
      [] OTHER -> 0

\* The 8 bytes of a fixed64, least significant byte first.
WordBytesLE(w) ==
    [j \in 1..8 |-> BitsToNum(SubSeq(w, WordBits - 8 * j + 1, WordBits - 8 * j + 8))]
BytesLEToWord(b) == Flatten([j \in 1..8 |-> NumToBits(b[9 - j], ByteBits)])

\* The 4 bytes of a fixed32, least significant byte first.
FloatBytesLE(f) ==
    [j \in 1..4 |-> BitsToNum(SubSeq(f, FloatBits - 8 * j + 1, FloatBits - 8 * j + 8))]
BytesLEToFloat(b) == Flatten([j \in 1..4 |-> NumToBits(b[5 - j], ByteBits)])

\* One field on the wire: key, then the value by wire type.
FieldWire(t, x) ==
    <<t * 8 + WireType(t)>> \o
    (CASE WireType(t) = 1 -> WordBytesLE(x)
       [] WireType(t) = 2 -> PutUvarint(Len(x)) \o x
       [] WireType(t) = 5 -> FloatBytesLE(x)
       [] OTHER -> PutUvarint(x))

\* m.Marshal(): the set fields (proto3: those not at their default) in field order.
Marshal(m) ==
    LET set == SortedSeq({t \in DOMAIN m.v : m.v[t] # GetDefaultValue(t)})
    IN  Flatten([i \in 1..Len(set) |-> FieldWire(set[i], m.v[set[i]])])

\* Bytes of the varint starting at buf[i]; 0 when it runs off the buffer.
RECURSIVE VarintLen(_, _)
VarintLen(buf, i) ==
    IF i > Len(buf) THEN 0
    ELSE IF buf[i] < 128 THEN 1
    ELSE LET n == VarintLen(buf, i + 1) IN IF n = 0 THEN 0 ELSE n + 1

MergeFieldUnknown(m, t, wt, x) == [m EXCEPT !.unk = @ \cup {t}]

\* A field read off the wire goes into m when m's descriptor knows it with that
\* wire type, and to the unknown fields otherwise.
MergeField(m, t, wt, x) ==
    IF t \in DOMAIN m.v /\ WireType(t) = wt
    THEN SetFieldByNumber(m, t, x)
    ELSE [m EXCEPT !.unk = @ \cup {t}]

\* m.UnmarshalMerge(buf): fields present in buf overwrite, the others stay.
RECURSIVE UnmarshalAt(_, _, _)
UnmarshalAt(m, buf, i) ==
    IF i > Len(buf) THEN [err |-> FALSE, m |-> m]
    ELSE
      LET t == buf[i] \div 8
          wt == buf[i] % 8
          n == VarintLen(buf, i + 1)
          x == Uvarint(SubSeq(buf, i + 1, i + n))
      IN  CASE wt = 0 ->
                 IF n = 0 THEN [err |-> TRUE, m |-> m]
                 ELSE UnmarshalAt(MergeField(m, t, wt, x), buf, i + 1 + n)
            [] wt = 1 ->
                 IF i + 8 > Len(buf) THEN [err |-> TRUE, m |-> m]
                 ELSE UnmarshalAt(
                        MergeField(m, t, wt, BytesLEToWord(SubSeq(buf, i + 1, i + 8))),
                        buf, i + 9)
            [] wt = 2 ->
                 IF n = 0 \/ i + n + x > Len(buf) THEN [err |-> TRUE, m |-> m]
                 ELSE UnmarshalAt(
                        MergeField(m, t, wt, SubSeq(buf, i + n + 1, i + n + x)),
                        buf, i + n + 1 + x)
            [] wt = 5 ->
                 IF i + 4 > Len(buf) THEN [err |-> TRUE, m |-> m]
                 ELSE UnmarshalAt(
                        MergeField(m, t, wt, BytesLEToFloat(SubSeq(buf, i + 1, i + 4))),
                        buf, i + 5)
            [] OTHER -> [err |-> TRUE, m |-> m]

UnmarshalMerge(m, buf) == UnmarshalAt(m, buf, 1)

\* Semantic comparison of two values of one field.
fieldsEqual(lhs, rhs) == lhs = rhs

fieldsContains(fieldNum, fields) == fieldNum \in SeqRange(fields)

(* ------------------------------ encoder --------------------------------- *)

errEncoderSchemaIsRequired == "proto encoder: schema is required"
errEncoderMessageHasUnknownFields == "proto encoder: message has unknown fields"
errEncoderClosed == "proto encoder: encoder is closed"
NoError == "nil"

\* One state per double or float field of the schema, in schema order, zeroed.
tszFields(schema) ==
    LET doubles == SelectSeq(schema, LAMBDA t : FieldType(t) \in {"double", "float"})
    IN  [i \in 1..Len(doubles) |->
            [fieldNum |-> doubles[i], prevXOR |-> ZeroWord, prevFloatBits |-> ZeroWord]]

\* The encoder NewEncoder returns: empty stream, no schema.
NewEncoder ==
    [stream |-> <<>>, schema |-> Nil, lastEncoded |-> Nil, tszFields |-> <<>>,
     hasWrittenFirstTSZ |-> FALSE, closed |-> FALSE]

\* m3tsz.WriteXOR: opcode 0, 10 (inside the previous window) or 11 (new window).
WriteXOR(s, prevXOR, curXOR) ==
    IF curXOR = ZeroWord THEN WriteBit(s, 0)
    ELSE
      LET prev == LeadingAndTrailingZeros(prevXOR)
          cur == LeadingAndTrailingZeros(curXOR)
          numMeaningfulBits == WordBits - cur[1] - cur[2]
      IN  IF cur[1] >= prev[1] /\ cur[2] >= prev[2]
          THEN WriteBits(s \o <<1, 0>>, ShiftRight(curXOR, prev[2]),
                         WordBits - prev[1] - prev[2])
          ELSE WriteBits(
                 s \o <<1, 1>> \o NumToBits(cur[1], 6) \o NumToBits(numMeaningfulBits - 1, 6),
                 ShiftRight(curXOR, cur[2]), numMeaningfulBits)

encodeFirstTSZValue(e, i, fb) ==
    [e EXCEPT !.stream = WriteBits(@, fb, WordBits),
              !.tszFields[i].prevFloatBits = fb,
              !.tszFields[i].prevXOR = fb]

encodeNextTSZValueStale(e, i, curFloatBits) ==
    LET curXOR == XorWord(e.tszFields[i].prevFloatBits, curFloatBits)
    IN  [e EXCEPT !.stream = WriteXOR(@, e.tszFields[i].prevXOR, curXOR),
                  !.tszFields[i].prevXOR = curXOR]

encodeNextTSZValue(e, i, curFloatBits) ==
    LET curXOR == XorWord(e.tszFields[i].prevFloatBits, curFloatBits)
    IN  [e EXCEPT !.stream = WriteXOR(@, e.tszFields[i].prevXOR, curXOR),
                  !.tszFields[i].prevFloatBits = curFloatBits,
                  !.tszFields[i].prevXOR = curXOR]

\* encodeTSZValues from field i on: write the value, clear the field from m.
RECURSIVE encodeTSZFrom(_, _, _)
encodeTSZFrom(e, m, i) ==
    IF i > Len(e.tszFields)
    THEN [e |-> [e EXCEPT !.hasWrittenFirstTSZ = TRUE], m |-> m]
    ELSE
      LET fieldNum == e.tszFields[i].fieldNum
          iVal == GetFieldByNumber(m, fieldNum)
          val == IF Len(iVal) = FloatBits THEN Float64(iVal) ELSE iVal
          e1 == IF ~e.hasWrittenFirstTSZ
                THEN encodeFirstTSZValue(e, i, val)
                ELSE encodeNextTSZValue(e, i, val)
      IN  encodeTSZFrom(e1, ClearFieldByNumber(m, fieldNum), i + 1)

encodeTSZValues(e, m) == encodeTSZFrom(e, m, 1)

encodeVarInt(s, x) == WriteBytes(s, PutUvarint(x))

SeqMax(values) ==
    IF values = <<>> THEN 0
    ELSE CHOOSE x \in SeqRange(values) : \A y \in SeqRange(values) : y <= x

\* varint(number of bits) | bitset: bit i (0-indexed) is 1 iff i+1 is a value.
encodeBitset(s, values) ==
    LET max == SeqMax(values)
    IN  encodeVarInt(s, max) \o
        [i \in 1..max |-> IF \E j \in 1..Len(values) : i - 1 = values[j] - 1 THEN 1 ELSE 0]

\* The message m handed to Encode and enc.lastEncoded are the same object when
\* same: a write to either is seen through both.  st = [m, last, changed, dflt].
StripOffSchema(m, schemaFields) ==
    [m EXCEPT !.v = [t \in DOMAIN m.v |->
                       IF fieldsContains(t, schemaFields) THEN m.v[t]
                       ELSE GetDefaultValue(t)]]

DiffFieldNoDefaults(st, fieldNum, same) ==
    LET prevVal == GetFieldByNumber(st.last, fieldNum)
        curVal == GetFieldByNumber(st.m, fieldNum)
    IN  IF fieldsEqual(curVal, prevVal)
        THEN LET m1 == ClearFieldByNumber(st.m, fieldNum)
             IN  [st EXCEPT !.m = m1, !.last = IF same THEN m1 ELSE @]
        ELSE LET l1 == SetFieldByNumber(st.last, fieldNum, curVal)
             IN  [st EXCEPT !.changed = Append(@, fieldNum),
                            !.last = l1,
                            !.m = IF same THEN l1 ELSE @]

DiffField(st, fieldNum, same) ==
    LET prevVal == GetFieldByNumber(st.last, fieldNum)
        curVal == GetFieldByNumber(st.m, fieldNum)
    IN  IF fieldsEqual(curVal, prevVal)
        THEN LET m1 == ClearFieldByNumber(st.m, fieldNum)
             IN  [st EXCEPT !.m = m1, !.last = IF same THEN m1 ELSE @]
        ELSE LET l1 == SetFieldByNumber(st.last, fieldNum, curVal)
             IN  [st EXCEPT
                    !.dflt = IF fieldsEqual(GetDefaultValue(fieldNum), curVal)
                             THEN Append(@, fieldNum) ELSE @,
                    !.changed = Append(@, fieldNum),
                    !.last = l1,
                    !.m = IF same THEN l1 ELSE @]

RECURSIVE DiffFrom(_, _, _, _)
DiffFrom(st, schemaFields, i, same) ==
    IF i > Len(schemaFields) THEN st
    ELSE DiffFrom(DiffField(st, schemaFields[i], same), schemaFields, i + 1, same)

\* encodeProtoValues: [e, rec], rec describing the record's generic part.
encodeProtoValues(e, m, same) ==
    LET schemaFields == e.schema[1]
        st0 == [m |-> m, last |-> m, changed |-> <<>>, dflt |-> <<>>]
        st == IF e.lastEncoded # Nil
              THEN LET m1 == StripOffSchema(m, schemaFields)
                   IN  DiffFrom([m |-> m1,
                                 last |-> IF same THEN m1 ELSE e.lastEncoded[1],
                                 changed |-> <<>>, dflt |-> <<>>],
                                schemaFields, 1, same)
              ELSE st0
        marshaled == Marshal(st.m)
        s1 == WriteBit(e.stream, 1)
        s2 == IF Len(st.dflt) > 0
              THEN encodeBitset(WriteBit(s1, 1), st.dflt)
              ELSE WriteBit(s1, 0)
        s3 == WriteBytes(encodeVarInt(s2, Len(marshaled)), marshaled)
    IN  IF Len(st.changed) = 0 /\ e.lastEncoded # Nil
        THEN [e |-> [e EXCEPT !.stream = WriteBit(@, 0), !.lastEncoded = <<st.last>>],
              rec |-> [protoChanges |-> 0, defaults |-> 0, changed |-> st.changed,
                       bitset |-> st.dflt, payload |-> <<>>]]
        ELSE [e |-> [e EXCEPT !.stream = s3,
                              !.lastEncoded = IF e.lastEncoded = Nil THEN <<st.m>>
                                              ELSE <<st.last>>],
              rec |-> [protoChanges |-> 1,
                       defaults |-> IF Len(st.dflt) > 0 THEN 1 ELSE 0,
                       changed |-> st.changed, bitset |-> st.dflt,
                       payload |-> marshaled]]

\* Encode past its three early returns: [e, rec].
EncodeRecord(e, m, same) ==
    LET proto(tsz) ==
            encodeProtoValues(IF same THEN [tsz.e EXCEPT !.lastEncoded = <<tsz.m>>]
                              ELSE tsz.e, tsz.m, same)
    IN  proto(encodeTSZValues([e EXCEPT !.stream = WriteBit(@, 1)], m))

(* ------------------------------ iterator -------------------------------- *)

EOF == "EOF"

\* One state per double or float field of the schema, in schema order, zeroed,
\* each with the type the schema declares.
customFields(schema) ==
    LET doubles == SelectSeq(schema, LAMBDA t : FieldType(t) \in {"double", "float"})
    IN  [i \in 1..Len(doubles) |->
            [fieldNum |-> doubles[i], fieldType |-> FieldType(doubles[i]),
             prevXOR |-> ZeroWord, prevFloatBits |-> ZeroWord]]

NewIteratorUnbound(reader, schema) ==
    [err |-> NoError, schema |-> <<schema>>, stream |-> reader, pos |-> 0,
     consumedFirstMessage |-> FALSE, lastIterated |-> Nil,
     customFields |-> <<>>, bitsetValues |-> <<>>, done |-> FALSE]

\* The iterator NewIterator returns over the bytes of reader.
NewIterator(reader, schema) ==
    [err |-> NoError, schema |-> <<schema>>, stream |-> reader, pos |-> 0,
     consumedFirstMessage |-> FALSE, lastIterated |-> Nil,
     customFields |-> customFields(schema), bitsetValues |-> <<>>, done |-> FALSE]

\* The zero value of the iterator struct: no iterator has been made yet.
NoIterator ==
    [err |-> NoError, schema |-> Nil, stream |-> <<>>, pos |-> 0,
     consumedFirstMessage |-> FALSE, lastIterated |-> Nil,
     customFields |-> <<>>, bitsetValues |-> <<>>, done |-> FALSE]

\* IStream.ReadBits(n): the next n bits, or EOF when the source has fewer left.
ReadBits(i, n) ==
    IF i.pos + n <= Len(i.stream)
    THEN [err |-> NoError, bits |-> SubSeq(i.stream, i.pos + 1, i.pos + n),
          it |-> [i EXCEPT !.pos = @ + n]]
    ELSE [err |-> EOF, bits |-> <<>>, it |-> [i EXCEPT !.pos = Len(i.stream)]]

ReadBit(i) == ReadBits(i, 1)
ReadByte(i) == ReadBits(i, ByteBits)

RECURSIVE readVarIntFrom(_, _)
readVarIntFrom(i, buf) ==
    LET got(r, b) ==
            IF r.err # NoError
            THEN [err |-> "error reading var int", val |-> 0, it |-> r.it]
            ELSE IF b \div 128 = 0
            THEN [err |-> NoError, val |-> Uvarint(Append(buf, b)), it |-> r.it]
            ELSE readVarIntFrom(r.it, Append(buf, b))
        read(r) == got(r, BitsToNum(r.bits))
    IN  read(ReadByte(i))

readVarInt(i) == readVarIntFrom(i, <<>>)

\* The bitset loop of readBitset over n bits: bit k (0-indexed) set appends k+1;
\* a source that ends early keeps what was appended and fails.
readBitsetBits(i, n) ==
    LET avail == IF i.pos + n <= Len(i.stream) THEN n ELSE Len(i.stream) - i.pos
        set == SelectSeq([k \in 1..avail |-> k], LAMBDA k : i.stream[i.pos + k] = 1)
        i1 == [i EXCEPT !.pos = @ + avail, !.bitsetValues = @ \o set]
    IN  IF avail < n THEN [err |-> "error reading bitset", it |-> i1]
        ELSE [err |-> NoError, it |-> i1]

readBitsetKeep(i) ==
    LET bits(r) == IF r.err # NoError THEN [err |-> r.err, it |-> r.it]
                   ELSE readBitsetBits(r.it, r.val)
    IN  bits(readVarInt(i))

readBitset(i) ==
    LET bits(r) == IF r.err # NoError THEN [err |-> r.err, it |-> r.it]
                   ELSE readBitsetBits(r.it, r.val)
    IN  bits(readVarInt([i EXCEPT !.bitsetValues = <<>>]))

\* readXOR for custom field k: [err, xor, it].
readXOR(i, k) ==
    LET prev == LeadingAndTrailingZeros(i.customFields[k].prevXOR)
        fail(r) == [err |-> r.err, xor |-> ZeroWord, it |-> r.it]
        meaningful(rb, numTrailingZeros) ==
            IF rb.err # NoError THEN fail(rb)
            ELSE [err |-> NoError,
                  xor |-> IF numTrailingZeros < 0 THEN ZeroWord
                          ELSE ShiftLeft(BitsToWord(rb.bits), numTrailingZeros),
                  it |-> rb.it]
        lengths(rm, numLeadingZeros, numMeaningfulBits) ==
            IF rm.err # NoError THEN fail(rm)
            ELSE meaningful(ReadBits(rm.it, numMeaningfulBits),
                            WordBits - numLeadingZeros - numMeaningfulBits)
        uncontained(rl, rm) ==
            IF rl.err # NoError THEN fail(rl)
            ELSE lengths(rm, BitsToNum(rl.bits), BitsToNum(rm.bits) + 1)
        contained(rc) ==
            IF rc.err # NoError THEN fail(rc)
            ELSE [err |-> NoError, xor |-> ShiftLeft(BitsToWord(rc.bits), prev[2]),
                  it |-> rc.it]
        opcode(r2, cb) ==
            IF r2.err # NoError THEN fail(r2)
            ELSE IF cb = 2
            THEN contained(ReadBits(r2.it, WordBits - prev[1] - prev[2]))
            ELSE uncontained(ReadBits(r2.it, 6), ReadBits(ReadBits(r2.it, 6).it, 6))
        second(r1, r2) == opcode(r2, 2 * r1.bits[1] + r2.bits[1])
        first(r1) ==
            IF r1.err # NoError THEN fail(r1)
            ELSE IF r1.bits[1] = 0 THEN [err |-> NoError, xor |-> ZeroWord, it |-> r1.it]
            ELSE second(r1, ReadBits(r1.it, 1))
    IN  first(ReadBits(i, 1))

\* Current() holds the value of custom field k after it was read.
updateLastIteratedWithTSZValues(i, k) ==
    LET last == IF i.lastIterated = Nil THEN NewMessage(i.schema[1])
                ELSE i.lastIterated[1]
        fieldNum == i.customFields[k].fieldNum
        val == i.customFields[k].prevFloatBits
    IN  [i EXCEPT !.lastIterated =
           <<SetFieldByNumber(last, fieldNum,
                              IF FieldType(fieldNum) = "double" THEN val
                              ELSE Float32(val))>>]

readFirstTSZValueZeroXOR(i, k) ==
    LET full(r, fb) ==
            IF r.err # NoError THEN [err |-> r.err, it |-> r.it]
            ELSE [err |-> NoError,
                  it |-> updateLastIteratedWithTSZValues(
                           [r.it EXCEPT !.customFields[k].prevFloatBits = fb,
                                        !.customFields[k].prevXOR = ZeroWord], k)]
        read(r) == full(r, BitsToWord(r.bits))
    IN  read(ReadBits(i, WordBits))

readFirstTSZValue(i, k) ==
    LET full(r, fb) ==
            IF r.err # NoError THEN [err |-> r.err, it |-> r.it]
            ELSE [err |-> NoError,
                  it |-> updateLastIteratedWithTSZValues(
                           [r.it EXCEPT !.customFields[k].prevFloatBits = fb,
                                        !.customFields[k].prevXOR = fb], k)]
        read(r) == full(r, BitsToWord(r.bits))
    IN  read(ReadBits(i, WordBits))

readNextTSZValue(i, k) ==
    LET float(r, fb) ==
            IF r.err # NoError THEN [err |-> r.err, it |-> r.it]
            ELSE [err |-> NoError,
                  it |-> updateLastIteratedWithTSZValues(
                           [r.it EXCEPT !.customFields[k].prevFloatBits = fb,
                                        !.customFields[k].prevXOR = r.xor], k)]
        read(r) == float(r, XorWord(i.customFields[k].prevFloatBits, r.xor))
    IN  read(readXOR(i, k))

\* readFirstCustomValues / readNextCustomValues from custom field k on.
RECURSIVE readCustomFrom(_, _)
readCustomFrom(i, k) ==
    LET rest(r) == IF r.err # NoError THEN r ELSE readCustomFrom(r.it, k + 1)
    IN  IF k > Len(i.customFields) THEN [err |-> NoError, it |-> i]
        ELSE rest(IF i.customFields[k].fieldType # "double"
                  THEN [err |-> NoError, it |-> i]
                  ELSE IF ~i.consumedFirstMessage
                  THEN readFirstTSZValue(i, k)
                  ELSE readNextTSZValue(i, k))

readCustomValues(i) == readCustomFrom(i, 1)

RECURSIVE ClearAll(_, _)
ClearAll(m, fieldNums) ==
    IF fieldNums = <<>> THEN m
    ELSE ClearAll(ClearFieldByNumber(m, Head(fieldNums)), Tail(fieldNums))

RECURSIVE readBytesFrom(_, _, _)
readBytesFrom(i, buf, n) ==
    LET got(r) ==
            IF r.err # NoError
            THEN [err |-> "error reading marshaled proto bytes", buf |-> buf, it |-> r.it]
            ELSE readBytesFrom(r.it, Append(buf, BitsToNum(r.bits)), n)
    IN  IF Len(buf) >= n THEN [err |-> NoError, buf |-> buf, it |-> i]
        ELSE got(ReadByte(i))

readProtoValuesAlwaysClears(i) ==
    LET merged(rb, um, fieldsSetToDefaultControlBit) ==
            IF um.err
            THEN [err |-> "error unmarshaling protobuf",
                  it |-> [rb.it EXCEPT !.lastIterated = <<um.m>>]]
            ELSE [err |-> NoError,
                  it |-> [rb.it EXCEPT !.lastIterated =
                            <<ClearAll(um.m, rb.it.bitsetValues)>>]]
        payload(rb, fieldsSetToDefaultControlBit) ==
            IF rb.err # NoError THEN [err |-> rb.err, it |-> rb.it]
            ELSE merged(rb,
                        UnmarshalMerge(IF rb.it.lastIterated = Nil
                                       THEN NewMessage(i.schema[1])
                                       ELSE rb.it.lastIterated[1], rb.buf),
                        fieldsSetToDefaultControlBit)
        length(rl, fieldsSetToDefaultControlBit) ==
            IF rl.err # NoError
            THEN [err |-> "proto iterator: err reading proto length varint", it |-> rl.it]
            ELSE payload(readBytesFrom(rl.it, <<>>, rl.val), fieldsSetToDefaultControlBit)
        bitset(rs, fieldsSetToDefaultControlBit) ==
            IF rs.err # NoError
            THEN [err |-> "error readining changed proto field numbers bitset", it |-> rs.it]
            ELSE length(readVarInt(rs.it), fieldsSetToDefaultControlBit)
        defaults(rd) ==
            IF rd.err # NoError
            THEN [err |-> "proto iterator: err reading field set to default control bit",
                  it |-> rd.it]
            ELSE bitset(IF rd.bits[1] = 1 THEN readBitset(rd.it)
                        ELSE [err |-> NoError, it |-> rd.it],
                        rd.bits[1])
        changes(rp) ==
            IF rp.err # NoError
            THEN [err |-> "proto iterator: err reading proto changes control bit",
                  it |-> rp.it]
            ELSE IF rp.bits[1] = 0 THEN [err |-> NoError, it |-> rp.it]
            ELSE defaults(ReadBit(rp.it))
    IN  changes(ReadBit(i))

readProtoValues(i) ==
    LET merged(rb, um, fieldsSetToDefaultControlBit) ==
            IF um.err
            THEN [err |-> "error unmarshaling protobuf",
                  it |-> [rb.it EXCEPT !.lastIterated = <<um.m>>]]
            ELSE [err |-> NoError,
                  it |-> [rb.it EXCEPT !.lastIterated =
                            <<IF fieldsSetToDefaultControlBit = 1
                              THEN ClearAll(um.m, rb.it.bitsetValues) ELSE um.m>>]]
        payload(rb, fieldsSetToDefaultControlBit) ==
            IF rb.err # NoError THEN [err |-> rb.err, it |-> rb.it]
            ELSE merged(rb,
                        UnmarshalMerge(IF rb.it.lastIterated = Nil
                                       THEN NewMessage(i.schema[1])
                                       ELSE rb.it.lastIterated[1], rb.buf),
                        fieldsSetToDefaultControlBit)
        length(rl, fieldsSetToDefaultControlBit) ==
            IF rl.err # NoError
            THEN [err |-> "proto iterator: err reading proto length varint", it |-> rl.it]
            ELSE payload(readBytesFrom(rl.it, <<>>, rl.val), fieldsSetToDefaultControlBit)
        bitset(rs, fieldsSetToDefaultControlBit) ==
            IF rs.err # NoError
            THEN [err |-> "error readining changed proto field numbers bitset", it |-> rs.it]
            ELSE length(readVarInt(rs.it), fieldsSetToDefaultControlBit)
        defaults(rd) ==
            IF rd.err # NoError
            THEN [err |-> "proto iterator: err reading field set to default control bit",
                  it |-> rd.it]
            ELSE bitset(IF rd.bits[1] = 1 THEN readBitset(rd.it)
                        ELSE [err |-> NoError, it |-> rd.it],
                        rd.bits[1])
        changes(rp) ==
            IF rp.err # NoError
            THEN [err |-> "proto iterator: err reading proto changes control bit",
                  it |-> rp.it]
            ELSE IF rp.bits[1] = 0 THEN [err |-> NoError, it |-> rp.it]
            ELSE defaults(ReadBit(rp.it))
    IN  changes(ReadBit(i))

hasNextIgnoresDone(i) == i.err = NoError

hasNext(i) == i.err = NoError /\ ~i.done

IterNextEOFAnywhere(i) ==
    LET consumed(ok) == [it |-> ok, ret |-> hasNext(ok)]
        proto(rp) ==
            IF rp.err # NoError THEN [it |-> [rp.it EXCEPT !.done = TRUE], ret |-> FALSE]
            ELSE consumed([rp.it EXCEPT !.consumedFirstMessage = TRUE])
        custom(rc) ==
            IF rc.err # NoError THEN [it |-> [rc.it EXCEPT !.done = TRUE], ret |-> FALSE]
            ELSE proto(readProtoValues(rc.it))
        more(rm) ==
            IF rm.err = EOF \/ (rm.err = NoError /\ rm.bits[1] = 0)
            THEN [it |-> [rm.it EXCEPT !.done = TRUE], ret |-> FALSE]
            ELSE custom(readCustomValues(rm.it))
    IN  IF ~hasNext(i) THEN [it |-> i, ret |-> FALSE]
        ELSE more(ReadBit(i))

\* Next(): [it, ret], ret the boolean it returns.
IterNext(i) ==
    LET consumed(ok) == [it |-> ok, ret |-> hasNext(ok)]
        proto(rp) ==
            IF rp.err # NoError THEN [it |-> [rp.it EXCEPT !.err = rp.err], ret |-> FALSE]
            ELSE consumed([rp.it EXCEPT !.consumedFirstMessage = TRUE])
        custom(rc) ==
            IF rc.err # NoError THEN [it |-> [rc.it EXCEPT !.err = rc.err], ret |-> FALSE]
            ELSE proto(readProtoValues(rc.it))
        more(rm) ==
            IF rm.err = EOF \/ (rm.err = NoError /\ rm.bits[1] = 0)
            THEN [it |-> [rm.it EXCEPT !.done = TRUE], ret |-> FALSE]
            ELSE custom(readCustomValues(rm.it))
    IN  IF ~hasNext(i) THEN [it |-> i, ret |-> FALSE]
        ELSE more(ReadBit(i))

(* ------------------------- inputs of the model -------------------------- *)

\* Bit patterns of 0.0, 1.0, 1.5 and of the smallest subnormal.
W0 == ZeroWord
W10 == WordOf(52..61)
W15 == WordOf(51..61)
WSub == WordOf({0})

Msg(lat, lon, name) == [v |-> (1 :> lat @@ 2 :> lon @@ 3 :> name), unk |-> {}]

\* Messages of the schema's own descriptor.
SchemaMsgs ==
    {Msg(W0, W0, <<>>), Msg(W15, W0, <<97>>), Msg(W10, WSub, <<97>>),
     Msg(W15, WSub, <<98>>)}

\* A message of a wider descriptor, with the field the schema lacks set.
WideMsgs ==
    {[v |-> (1 :> W15 @@ 2 :> W0 @@ 3 :> <<97>> @@ ExtraField :> 1), unk |-> {}]}

\* A message carrying an unknown (unparsed) field.
UnknownMsgs == {[v |-> (1 :> W0 @@ 2 :> W0 @@ 3 :> <<>>), unk |-> {9}]}

Messages == SchemaMsgs \cup WideMsgs \cup UnknownMsgs

\* Values a caller puts into the message object it passed first, to pass it again.
ReusedMsgs == {Msg(W15, W0, <<97>>), Msg(W15, W0, <<>>)}

(* --------------------------- the state machine -------------------------- *)

(* ---------------------------- cost reporters ---------------------------- *)

\* Goroutines that call the reporters, and calls they make in all.
NumThreads == 2
MaxCalls == 3

Threads == 1..NumThreads

\* The mutex is held by no goroutine.
NoThread == 0

\* A cost.Cost is a float64; the model holds a cost as its number of halves,
\* so 3 is the cost 1.5.  The costs passed: -1.0, 0.0, 0.5, 1.5 and 2.0.
Costs == {-2, 0, 1, 3, 4}

\* int64(c): the cost with its fraction dropped, as a whole number.
CostInt64(c) == IF c >= 0 THEN c \div 2 ELSE -((-c) \div 2)

\* newPerQueryReporter: mutex free, maxDatapoints 0, no histogram sample.
newPerQueryReporter == [mu |-> NoThread, maxDatapoints |-> 0, queryHisto |-> <<>>]

\* newGlobalReporter: the datapoints counter at 0.
newGlobalReporter == [datapointsCounter |-> 0]

\* A goroutine inside no call.
IdleThread == [pc |-> "idle", op |-> "none", curCost |-> 0]

\* The calls made so far: how many, the costs passed to OnChildRelease, those of
\* them whose call has returned, the OnRelease calls that returned, the costs
\* passed to ReportCost in order.
NoCalls ==
    [started |-> 0, childCosts |-> {}, childReturned |-> {}, released |-> 0,
     reported |-> <<>>]

ReportersIdle ==
    /\ pr = newPerQueryReporter
    /\ gr = newGlobalReporter
    /\ threads = [t \in Threads |-> IdleThread]
    /\ callLog = NoCalls

NoRecord == [protoChanges |-> 0, defaults |-> 0, changed |-> <<>>, bitset |-> <<>>,
             payload |-> <<>>, bits |-> <<>>]

BsOff == [pc |-> "off", values |-> <<>>, prefix |-> <<>>, stream |-> <<>>]

Init ==
    /\ ReportersIdle
    /\ enc = NewEncoder
    /\ ret = [op |-> "NewEncoder", err |-> NoError, bytes |-> <<>>]
    /\ it = NoIterator
    /\ itRet = [made |-> FALSE, cut |-> 0, ret |-> FALSE, count |-> 0, calls |-> 0]
    /\ hist = <<>>
    /\ lastRecord = NoRecord
    /\ caller = [encodes |-> 0, distinct |-> TRUE, wasClosed |-> FALSE,
                 dirtyReset |-> FALSE]
    /\ bs = BsOff

\* The caller works on the encoder until it makes the iterator.
Writing == ~itRet.made /\ bs.pc = "off"

ResetEncoderKeepsFirst(e, schema) ==
    [e EXCEPT !.stream = <<>>,
              !.schema = <<schema>>,
              !.lastEncoded = Nil,
              !.tszFields = tszFields(schema),
              !.closed = FALSE]

ResetEncoder(e, schema) ==
    [e EXCEPT !.stream = <<>>,
              !.schema = <<schema>>,
              !.lastEncoded = Nil,
              !.tszFields = tszFields(schema),
              !.hasWrittenFirstTSZ = FALSE,
              !.closed = FALSE]

\* enc.Reset(b, schema) with an empty buffer b.
Reset ==
    /\ Writing
    /\ enc' = ResetEncoder(enc, VLSchema)
    /\ ret' = [op |-> "Reset", err |-> NoError, bytes |-> <<>>]
    /\ hist' = <<>>
    /\ lastRecord' = NoRecord
    /\ caller' = [caller EXCEPT !.distinct = TRUE,
                                !.dirtyReset = Len(hist) > 0 /\ ~enc.closed]
    /\ UNCHANGED <<it, itRet, bs, reporterVars>>

EncodeRejectsNotClosed(e, m) ==
    IF e.schema = Nil THEN errEncoderSchemaIsRequired
    ELSE IF Cardinality(GetUnknownFields(m)) > 0 THEN errEncoderMessageHasUnknownFields
    ELSE NoError

EncodeRejectsUnknownFirst(e, m) ==
    IF e.closed THEN errEncoderClosed
    ELSE IF Cardinality(GetUnknownFields(m)) > 0 THEN errEncoderMessageHasUnknownFields
    ELSE IF e.schema = Nil THEN errEncoderSchemaIsRequired
    ELSE NoError

\* The error Encode returns before it writes anything, or nil.
EncodeRejects(e, m) ==
    IF e.closed THEN errEncoderClosed
    ELSE IF e.schema = Nil THEN errEncoderSchemaIsRequired
    ELSE IF Cardinality(GetUnknownFields(m)) > 0 THEN errEncoderMessageHasUnknownFields
    ELSE NoError

\* enc.Encode(m); same: m is the object enc.lastEncoded points to.
EncodeCall(m, same) ==
    LET encoded(r) ==
            /\ caller.encodes < MaxRecords
            /\ enc' = r.e
            /\ ret' = [op |-> "Encode", err |-> NoError, bytes |-> <<>>]
            /\ hist' = Append(hist, m)
            /\ lastRecord' =
                 [protoChanges |-> r.rec.protoChanges, defaults |-> r.rec.defaults,
                  changed |-> r.rec.changed, bitset |-> r.rec.bitset,
                  payload |-> r.rec.payload,
                  bits |-> SubSeq(r.e.stream, Len(enc.stream) + 1, Len(r.e.stream))]
            /\ caller' = [caller EXCEPT !.encodes = @ + 1,
                                        !.distinct = @ /\ ~same]
        rejected(err) ==
            /\ ret' = [op |-> "Encode", err |-> err, bytes |-> <<>>]
            /\ UNCHANGED <<enc, hist, lastRecord, caller>>
    IN  IF EncodeRejects(enc, m) # NoError
        THEN rejected(EncodeRejects(enc, m))
        ELSE encoded(EncodeRecord(enc, m, same))

\* Encode of a message object the encoder has not seen.
Encode ==
    /\ Writing
    /\ \E m \in Messages : EncodeCall(m, FALSE)
    /\ UNCHANGED <<it, itRet, bs, reporterVars>>

\* The caller fills the object it passed first after Reset (the one the encoder
\* kept as lastEncoded) with new values and passes it again.
EncodeSameObject ==
    /\ Writing
    /\ ~enc.closed
    /\ enc.lastEncoded # Nil
    /\ \E m \in ReusedMsgs :
          /\ DOMAIN m.v = DOMAIN enc.lastEncoded[1].v
          /\ EncodeCall(m, TRUE)
    /\ UNCHANGED <<it, itRet, bs, reporterVars>>

BytesNoCheck ==
    /\ Writing
    /\ ret' = [op |-> "Bytes", err |-> NoError, bytes |-> Rawbytes(enc.stream)]
    /\ UNCHANGED <<enc, hist, lastRecord, caller, it, itRet, bs, reporterVars>>

\* enc.Bytes()
Bytes ==
    /\ Writing
    /\ IF enc.closed
       THEN ret' = [op |-> "Bytes", err |-> errEncoderClosed, bytes |-> <<>>]
       ELSE ret' = [op |-> "Bytes", err |-> NoError, bytes |-> Rawbytes(enc.stream)]
    /\ UNCHANGED <<enc, hist, lastRecord, caller, it, itRet, bs, reporterVars>>

\* enc.Close(): the stream gives its buffer away.
Close ==
    /\ Writing
    /\ IF enc.closed
       THEN /\ ret' = [op |-> "Close", err |-> errEncoderClosed, bytes |-> <<>>]
            /\ UNCHANGED <<enc, caller>>
       ELSE /\ ret' = [op |-> "Close", err |-> NoError, bytes |-> Rawbytes(enc.stream)]
            /\ enc' = [enc EXCEPT !.stream = <<>>, !.closed = TRUE]
            /\ caller' = [caller EXCEPT !.wasClosed = TRUE]
    /\ UNCHANGED <<hist, lastRecord, it, itRet, bs, reporterVars>>

\* NewIterator over the bytes Bytes or Close returned, or over those bytes short
\* of their last cut bytes.
MakeIterator ==
    /\ Writing
    /\ ret.op \in {"Bytes", "Close"}
    /\ ret.err = NoError
    /\ \E cut \in 0..MaxCut :
          /\ cut * ByteBits <= Len(ret.bytes)
          /\ it' = NewIterator(SubSeq(ret.bytes, 1, Len(ret.bytes) - cut * ByteBits),
                               VLSchema)
          /\ itRet' = [made |-> TRUE, cut |-> cut, ret |-> FALSE, count |-> 0,
                       calls |-> 0]
    /\ UNCHANGED <<enc, ret, hist, lastRecord, caller, bs, reporterVars>>

\* it.Next()
Next_ ==
    LET returned(r) ==
            /\ it' = r.it
            /\ itRet' = [itRet EXCEPT !.ret = r.ret,
                                      !.count = IF r.ret THEN @ + 1 ELSE @,
                                      !.calls = @ + 1]
    IN  /\ itRet.made
        /\ itRet.calls < Len(hist) + 1 + MaxExtraNext
        /\ returned(IterNext(it))
        /\ UNCHANGED <<enc, ret, hist, lastRecord, caller, bs, reporterVars>>

Next == Reset \/ Encode \/ EncodeSameObject \/ Bytes \/ Close \/ MakeIterator \/ Next_

Spec == Init /\ [][Next]_vars

(* ---------------- encodeBitset / readBitset on their own ---------------- *)

\* Field tags of the bitset lists: the small ones and one past a single-byte varint.
BsTags == (1..MaxTag) \cup {130}

BsLists == UNION {[1..n -> BsTags] : n \in 1..MaxListLen}

\* Bits already in the stream when the bitset is written (none, or a partial byte).
BsPrefixes == {<<>>, <<1, 0, 1>>}

InitBitset ==
    /\ ReportersIdle
    /\ enc = NewEncoder
    /\ ret = [op |-> "NewEncoder", err |-> NoError, bytes |-> <<>>]
    /\ it = NoIterator
    /\ itRet = [made |-> FALSE, cut |-> 0, ret |-> FALSE, count |-> 0, calls |-> 0]
    /\ hist = <<>>
    /\ lastRecord = NoRecord
    /\ caller = [encodes |-> 0, distinct |-> TRUE, wasClosed |-> FALSE,
                 dirtyReset |-> FALSE]
    /\ bs \in {[pc |-> "start", values |-> L, prefix |-> p, stream |-> <<>>] :
                 L \in BsLists, p \in BsPrefixes}

\* enc.encodeBitset(values) on a stream holding bs.prefix.
BsEncode ==
    /\ bs.pc = "start"
    /\ bs' = [bs EXCEPT !.pc = "encoded", !.stream = encodeBitset(bs.prefix, bs.values)]
    /\ UNCHANGED <<enc, ret, it, itRet, hist, lastRecord, caller, reporterVars>>

\* it.readBitset() on the bytes written, the scratch list holding an earlier read.
BsRead ==
    /\ bs.pc = "encoded"
    /\ \E stale \in {<<>>, <<2>>} :
          LET i0 == [NewIterator(Rawbytes(bs.stream), VLSchema)
                       EXCEPT !.pos = Len(bs.prefix), !.bitsetValues = stale]
              r == readBitset(i0)
          IN  /\ it' = r.it
              /\ bs' = [bs EXCEPT !.pc = IF r.err = NoError THEN "read" ELSE "failed"]
    /\ UNCHANGED <<enc, ret, itRet, hist, lastRecord, caller, reporterVars>>

NextBitset == BsEncode \/ BsRead

SpecBitset == InitBitset /\ [][NextBitset]_vars

(* ------------------------------- claims --------------------------------- *)

SchemaFields == SeqRange(VLSchema)
CustomFields == {t \in SchemaFields : FieldType(t) = "double"}
GenericFields == SchemaFields \ CustomFields

\* No message of h has a field set that the schema lacks.
Conforming(h) ==
    \A k \in 1..Len(h) : \A t \in DOMAIN h[k].v \ SchemaFields :
        h[k].v[t] = GetDefaultValue(t)

\* The iterator reads the bytes the encoder returned for the records of hist.
Reading == itRet.made

\* Current() equals m in every schema field and holds nothing else.
FieldsMatch(cur, m) ==
    /\ \A t \in SchemaFields : GetFieldByNumber(cur, t) = GetFieldByNumber(m, t)
    /\ GetUnknownFields(cur) = {}

\* C1: messages of the schema, each a distinct object, encoded after Reset and
\* read back over all the bytes: Next returns true once per message, Current()
\* then equals that message field by field, and the Next after the last returns
\* false with no error.
C1_RoundTrip ==
    (Reading /\ itRet.cut = 0 /\ caller.distinct /\ Conforming(hist)) =>
        /\ it.err = NoError
        /\ itRet.count <= Len(hist)
        /\ itRet.count > 0 =>
              /\ it.lastIterated # Nil
              /\ FieldsMatch(it.lastIterated[1], hist[itRet.count])
        /\ itRet.calls > itRet.count => (it.done /\ ~itRet.ret)
        /\ it.done => itRet.count = Len(hist)

C1_Witness ==
    /\ Reading /\ itRet.cut = 0 /\ caller.distinct /\ Conforming(hist)
    /\ Len(hist) = 3
    /\ hist[1] # hist[2] /\ hist[2] # hist[3]
    /\ itRet.count = 3 /\ itRet.calls = 4 /\ it.done

\* C2: whatever was encoded, after the k-th successful Next every custom field's
\* reconstructed bit pattern, in the float state and in Current(), is the
\* pattern the k-th message gave the encoder.
C2_FloatFidelity ==
    (Reading /\ it.err = NoError /\ itRet.count > 0) =>
        /\ itRet.count <= Len(hist)
        /\ \A k \in 1..Len(it.customFields) :
              LET given == GetFieldByNumber(hist[itRet.count], it.customFields[k].fieldNum)
              IN  /\ it.customFields[k].prevFloatBits = given
                  /\ GetFieldByNumber(it.lastIterated[1], it.customFields[k].fieldNum) = given

\* A first value of all-zero bits, repeated (XOR zero), then a change while the
\* previous XOR is zero, read back in both custom fields.
C2_Witness ==
    /\ Reading /\ it.err = NoError /\ itRet.count = 3
    /\ hist[1].v[1] = W0 /\ hist[2].v[1] = W0 /\ hist[3].v[1] = W10
    /\ hist[1].v[2] = W0 /\ hist[2].v[2] = W0 /\ hist[3].v[2] = WSub

\* C3: a generic field that is non-default in one record and default in the
\* next: the next record has proto-changes 1, defaults 1 and the field in its
\* bitset, and the iterator yields the default after reading it.
C3_DefaultReassertion ==
    \A t \in GenericFields :
        /\ (Len(hist) >= 2
              /\ hist[Len(hist) - 1].v[t] # GetDefaultValue(t)
              /\ hist[Len(hist)].v[t] = GetDefaultValue(t)) =>
                 /\ lastRecord.protoChanges = 1
                 /\ lastRecord.defaults = 1
                 /\ t \in SeqRange(lastRecord.bitset)
        /\ (Reading /\ it.err = NoError /\ itRet.count >= 2
              /\ hist[itRet.count - 1].v[t] # GetDefaultValue(t)
              /\ hist[itRet.count].v[t] = GetDefaultValue(t)) =>
                 GetFieldByNumber(it.lastIterated[1], t) = GetDefaultValue(t)

\* C4: a message equal in every field to the one encoded before it appends
\* exactly 1, one 0 per custom field, 0.
C4_UnchangedCompact ==
    (Len(hist) >= 2 /\ hist[Len(hist)] = hist[Len(hist) - 1]) =>
        lastRecord.bits = <<1>> \o [k \in 1..Len(enc.tszFields) |-> 0] \o <<0>>

\* The field numbers found in a marshaled payload that the schema lacks.
OffSchemaIn(payload) == UnmarshalMerge(NewMessage(VLSchema), payload).m.unk

\* C5: a message with a field the schema lacks, first record included: the field
\* is in neither the record's payload nor lastEncoded nor the message read back.
C5_OffSchemaStripped ==
    /\ (Len(hist) >= 1 /\ ~Conforming(<<hist[Len(hist)]>>)) =>
          /\ OffSchemaIn(lastRecord.payload) = {}
          /\ \A t \in DOMAIN enc.lastEncoded[1].v \ SchemaFields :
                enc.lastEncoded[1].v[t] = GetDefaultValue(t)
    /\ (Reading /\ it.err = NoError /\ itRet.count >= 1) =>
          GetUnknownFields(it.lastIterated[1]) = {}

\* C6: on a closed encoder, until Reset, a call of Encode, Bytes or Close returns
\* the Closed error and no bytes, and leaves the encoder (stream included) as it was.
C6_ClosedRejects ==
    [][(enc.closed /\ ~itRet'.made /\ ret'.op # "Reset") =>
          (ret'.err = errEncoderClosed /\ ret'.bytes = <<>> /\ enc' = enc /\ hist' = hist)]_vars

C6_Witness == enc.closed /\ ret.op = "Bytes" /\ ret.err = errEncoderClosed

\* C7 as stated: once Close has succeeded no Encode succeeds any more, whatever
\* is called in between.
C7_ClosedTerminal == ~(caller.wasClosed /\ ret.op = "Encode" /\ ret.err = NoError)

\* C7 as amended: a closed encoder stays closed, and no Encode on it succeeds,
\* until Reset is called; Reset leaves the encoder open.
C7_ClosedUntilReset ==
    [][/\ (enc.closed /\ ret'.op # "Reset") =>
             (enc'.closed /\ ~(ret'.op = "Encode" /\ ret'.err = NoError))
       /\ ret'.op = "Reset" => ~enc'.closed]_vars

C7_Witness ==
    /\ caller.wasClosed /\ ~enc.closed
    /\ ret.op = "Encode" /\ ret.err = NoError /\ Len(hist) = 1

\* The bits of a first record for m: more-data 1, 64 raw bits per custom field,
\* proto-changes 1, defaults 0, the length and the bytes of m's marshaled
\* fields other than the custom ones.
FirstRecordBits(m) ==
    LET rest == [m EXCEPT !.v = [t \in DOMAIN m.v |->
                                   IF t \in CustomFields THEN GetDefaultValue(t)
                                   ELSE m.v[t]]]
        payload == Marshal(rest)
    IN  <<1>> \o m.v[1] \o m.v[2] \o <<1, 0>> \o
        WriteBytes(<<>>, <<Len(payload)>> \o payload)

\* C8: Reset leaves no rolling state, and the Encode after a Reset made on an
\* open encoder that had encoded records appends a first record.
C8_ResetErases ==
    /\ ret.op = "Reset" =>
          /\ enc.lastEncoded = Nil
          /\ ~enc.hasWrittenFirstTSZ
          /\ enc.stream = <<>>
          /\ \A k \in 1..Len(enc.tszFields) :
                /\ enc.tszFields[k].prevXOR = ZeroWord
                /\ enc.tszFields[k].prevFloatBits = ZeroWord
    /\ (caller.dirtyReset /\ Len(hist) = 1) =>
          /\ lastRecord.bits = FirstRecordBits(hist[1])
          /\ lastRecord.protoChanges = 1
          /\ ~enc.closed => enc.stream = lastRecord.bits

C8_Witness ==
    /\ caller.dirtyReset /\ Len(hist) = 1
    /\ ret.op = "Encode" /\ ret.err = NoError
    /\ hist[1].v[3] # <<>> /\ hist[1].v[1] # W0

\* A bitset length below 2^14 as a varint, in bits.
VarintBits(n) ==
    IF n < 128 THEN NumToBits(n, 8)
    ELSE NumToBits(128 + (n % 128), 8) \o NumToBits(n \div 128, 8)

\* C9: encodeBitset writes varint(max) and max bits, bit i set iff i+1 is in the
\* list; readBitset on them yields the sorted tags and consumes just those bits.
C9_BitsetRoundTrip ==
    LET L == SeqRange(bs.values)
        max == CHOOSE x \in L : \A y \in L : y <= x
    IN  bs.pc # "off" =>
          /\ bs.pc # "failed"
          /\ bs.pc \in {"encoded", "read"} =>
                bs.stream = bs.prefix \o VarintBits(max) \o
                            [i \in 1..max |-> IF i \in L THEN 1 ELSE 0]
          /\ bs.pc = "read" =>
                /\ it.bitsetValues = SortedSeq(L)
                /\ it.pos = Len(bs.stream)

C9_Witness ==
    /\ bs.pc = "read" /\ Len(bs.values) = 2
    /\ bs.values[1] = 130 /\ bs.values[2] = 1 /\ bs.prefix # <<>>
    /\ it.bitsetValues = <<1, 130>>

\* C10: a Next called once the iterator is done or holds an error returns false
\* and changes nothing: no bit is read, the error and done stay as they are.
C10_TerminalAbsorbing ==
    [][(Reading /\ (it.done \/ it.err # NoError) /\ itRet'.calls = itRet.calls + 1) =>
          (~itRet'.ret /\ it' = it)]_vars

C10_Witness ==
    /\ Reading /\ it.err # NoError /\ ~it.done
    /\ itRet.count >= 1 /\ itRet.calls >= itRet.count + 2

(* -------------------- C11: end of stream and truncation ------------------ *)

\* The position at which the record that starts at the iterator's position ends
\* in the bytes the encoder returned, of which the iterator's reader is a prefix.
RecordEndInFullStream == IterNext([it EXCEPT !.stream = ret.bytes]).it.pos

\* The iterator stands at a more-data position with nothing, or a 0 bit, to read.
AtEndOfStream == it.pos >= Len(it.stream) \/ it.stream[it.pos + 1] = 0



C12_SchemaRequired ==
    [][/\ (enc.schema = Nil /\ ~enc.closed /\ ~itRet'.made /\ ret'.op = "Encode") =>
             (ret'.err = errEncoderSchemaIsRequired /\ enc' = enc /\ hist' = hist)
       /\ (enc.schema = Nil /\ enc'.schema # Nil) => ret'.op = "Reset"]_vars

\* An Encode was rejected for the missing schema on an encoder never reset.
C12_Witness ==
    /\ enc.schema = Nil /\ ~enc.closed /\ enc.stream = <<>>
    /\ ret.op = "Encode" /\ ret.err = errEncoderSchemaIsRequired

(* ------------------ constructors and schema binding ---------------------- *)

errEncoderEncodingOptionsAreRequired == "proto encoder: encoding options are required"
errIteratorReaderIsRequired == "proto iterator: reader is required"
errIteratorSchemaIsRequired == "proto iterator: schema is required"

\* NewEncoder(opts) with its nil check: [enc, err], enc nil on error.
NewEncoderCall(opts) ==
    IF opts = Nil THEN [enc |-> Nil, err |-> errEncoderEncodingOptionsAreRequired]
    ELSE [enc |-> <<NewEncoder>>, err |-> NoError]

NewIteratorCallSchemaFirst(reader, schema) ==
    IF schema = Nil THEN [it |-> Nil, err |-> errIteratorSchemaIsRequired]
    ELSE IF reader = Nil THEN [it |-> Nil, err |-> errIteratorReaderIsRequired]
    ELSE [it |-> <<NewIterator(reader[1], schema[1])>>, err |-> NoError]

\* NewIterator(reader, schema) with its nil checks: [it, err], it nil on error.
NewIteratorCall(reader, schema) ==
    IF reader = Nil THEN [it |-> Nil, err |-> errIteratorReaderIsRequired]
    ELSE IF schema = Nil THEN [it |-> Nil, err |-> errIteratorSchemaIsRequired]
    ELSE [it |-> <<NewIterator(reader[1], schema[1])>>, err |-> NoError]

\* Arguments the constructors are called with: nil or present options (with or
\* without an encoder pool), nil or present readers, nil or present schemas.
NewOptions == {Nil, <<[encoderPool |-> FALSE]>>, <<[encoderPool |-> TRUE]>>}

NewReaders ==
    {Nil, <<<<>>>>, <<[k \in 1..ByteBits |-> 0]>>,
     <<Rawbytes(EncodeRecord(ResetEncoder(NewEncoder, VLSchema),
                             Msg(W15, W0, <<97>>), FALSE).e.stream)>>}

NewSchemas ==
    {Nil, <<VLSchema>>, <<<<3>>>>, <<<<1, 3>>>>, <<<<2, 3, ExtraField>>>>, <<<<1, 2>>>>,
     <<<<2>>>>, <<<<1, 3, FloatField>>>>}

NoCall == [enc |-> Nil, it |-> Nil, err |-> NoError]

InitNew ==
    /\ ReportersIdle
    /\ enc = NewEncoder
    /\ ret = [op |-> "NewEncoder", err |-> NoError, bytes |-> <<>>]
    /\ it = NoIterator
    /\ itRet = [made |-> FALSE, cut |-> 0, ret |-> FALSE, count |-> 0, calls |-> 0]
    /\ hist = <<>>
    /\ lastRecord = NoRecord
    /\ caller = [encodes |-> 0, distinct |-> TRUE, wasClosed |-> FALSE,
                 dirtyReset |-> FALSE]
    /\ bs \in {[pc |-> "args", opts |-> o, reader |-> r, schema |-> s, res |-> NoCall] :
                 o \in NewOptions, r \in NewReaders, s \in NewSchemas}

\* NewEncoder(opts)
NewEncoderStep ==
    /\ bs.pc = "args"
    /\ bs' = [bs EXCEPT !.pc = "encoder",
                        !.res = [enc |-> NewEncoderCall(bs.opts).enc, it |-> Nil,
                                 err |-> NewEncoderCall(bs.opts).err]]
    /\ enc' = IF NewEncoderCall(bs.opts).enc = Nil THEN enc
              ELSE NewEncoderCall(bs.opts).enc[1]
    /\ UNCHANGED <<ret, it, itRet, hist, lastRecord, caller, reporterVars>>

\* enc.Reset(b, schema) on the encoder NewEncoder returned.
NewBindStep ==
    /\ bs.pc = "encoder" /\ bs.res.enc # Nil /\ bs.schema # Nil
    /\ enc' = ResetEncoder(enc, bs.schema[1])
    /\ bs' = [bs EXCEPT !.pc = "bound"]
    /\ UNCHANGED <<ret, it, itRet, hist, lastRecord, caller, reporterVars>>

\* NewIterator(reader, schema)
NewIteratorStep ==
    /\ bs.pc = "args"
    /\ bs' = [bs EXCEPT !.pc = "iterator",
                        !.res = [enc |-> Nil, it |-> NewIteratorCall(bs.reader, bs.schema).it,
                                 err |-> NewIteratorCall(bs.reader, bs.schema).err]]
    /\ it' = IF NewIteratorCall(bs.reader, bs.schema).it = Nil THEN it
             ELSE NewIteratorCall(bs.reader, bs.schema).it[1]
    /\ UNCHANGED <<enc, ret, itRet, hist, lastRecord, caller, reporterVars>>

\* it.Next() on the iterator NewIterator returned.
NewNextStep ==
    /\ bs.pc = "iterator" /\ bs.res.it # Nil
    /\ it' = IterNext(it).it
    /\ bs' = [bs EXCEPT !.pc = "next"]
    /\ UNCHANGED <<enc, ret, itRet, hist, lastRecord, caller, reporterVars>>

NextNew == NewEncoderStep \/ NewBindStep \/ NewIteratorStep \/ NewNextStep

SpecNew == InitNew /\ [][NextNew]_vars

(* -------------------- C13: constructor preconditions --------------------- *)

\* C13: NewEncoder returns no encoder and errEncoderEncodingOptionsAreRequired
\* for nil options, and an open encoder with an empty stream and a nil error
\* otherwise; NewIterator returns no iterator and errIteratorReaderIsRequired
\* for a nil reader, errIteratorSchemaIsRequired for a reader with a nil schema,
\* and otherwise an iterator at the start of the reader, bound to the schema,
\* with a nil error.
C13_ConstructorPreconditions ==
    /\ bs.pc \in {"encoder", "bound"} =>
          IF bs.opts = Nil
          THEN bs.res.enc = Nil /\ bs.res.err = errEncoderEncodingOptionsAreRequired
          ELSE /\ bs.res.err = NoError /\ bs.res.enc # Nil
               /\ ~bs.res.enc[1].closed /\ bs.res.enc[1].stream = <<>>
    /\ bs.pc \in {"iterator", "next"} =>
          IF bs.reader = Nil
          THEN bs.res.it = Nil /\ bs.res.err = errIteratorReaderIsRequired
          ELSE IF bs.schema = Nil
          THEN bs.res.it = Nil /\ bs.res.err = errIteratorSchemaIsRequired
          ELSE /\ bs.res.err = NoError /\ bs.res.it # Nil
               /\ bs.res.it[1].stream = bs.reader[1] /\ bs.res.it[1].pos = 0
               /\ bs.res.it[1].schema = bs.schema
               /\ bs.res.it[1].err = NoError /\ ~bs.res.it[1].done

\* NewIterator was called with a nil reader and a nil schema and refused the reader.
C13_Witness ==
    /\ bs.pc = "iterator" /\ bs.reader = Nil /\ bs.schema = Nil
    /\ bs.res.err = errIteratorReaderIsRequired

(* ------------------- C14: custom-field classification -------------------- *)

\* The double fields of a schema.
DoubleFields(schema) == {t \in SeqRange(schema) : FieldType(t) = "double"}

\* A list of field states holds exactly the double fields of the schema, each
\* once, in ascending field order, with prevXOR and prevFloatBits zero.
ClassifiesDoubles(states, schema) ==
    /\ Len(states) = Cardinality(DoubleFields(schema))
    /\ {states[k].fieldNum : k \in 1..Len(states)} = DoubleFields(schema)
    /\ \A k \in 1..Len(states) :
          /\ states[k].prevXOR = ZeroWord /\ states[k].prevFloatBits = ZeroWord
          /\ k > 1 => states[k - 1].fieldNum < states[k].fieldNum

FloatingFields(schema) == {t \in SeqRange(schema) : FieldType(t) \in {"double", "float"}}

\* A list of field states holds exactly the double and float fields of the
\* schema, each once, in ascending field order, with prevXOR and prevFloatBits
\* zero.
ClassifiesFloating(states, schema) ==
    /\ Len(states) = Cardinality(FloatingFields(schema))
    /\ {states[k].fieldNum : k \in 1..Len(states)} = FloatingFields(schema)
    /\ \A k \in 1..Len(states) :
          /\ states[k].prevXOR = ZeroWord /\ states[k].prevFloatBits = ZeroWord
          /\ k > 1 => states[k - 1].fieldNum < states[k].fieldNum

OnChildRelease(t, c) ==
    /\ threads[t].pc = "idle"
    /\ callLog.started < MaxCalls
    /\ threads' = [threads EXCEPT ![t] = [pc |-> "lock", op |-> "OnChildRelease",
                                          curCost |-> c]]
    /\ callLog' = [callLog EXCEPT !.started = @ + 1, !.childCosts = @ \cup {c}]
    /\ UNCHANGED <<pr, gr, codecVars>>

\* Goroutine t calls pr.OnRelease(c).
OnRelease(t, c) ==
    /\ threads[t].pc = "idle"
    /\ callLog.started < MaxCalls
    /\ threads' = [threads EXCEPT ![t] = [pc |-> "lock", op |-> "OnRelease",
                                          curCost |-> c]]
    /\ callLog' = [callLog EXCEPT !.started = @ + 1]
    /\ UNCHANGED <<pr, gr, codecVars>>

LockNoWait(t) ==
    /\ threads[t].pc = "lock"
    /\ pr' = [pr EXCEPT !.mu = t]
    /\ threads' = [threads EXCEPT ![t].pc =
                     IF threads[t].op = "OnChildRelease" THEN "compare" ELSE "record"]
    /\ UNCHANGED <<gr, callLog, codecVars>>

\* pr.mu.Lock(): waits until no goroutine holds the mutex.
Lock(t) ==
    /\ threads[t].pc = "lock"
    /\ pr.mu = NoThread
    /\ pr' = [pr EXCEPT !.mu = t]
    /\ threads' = [threads EXCEPT ![t].pc =
                     IF threads[t].op = "OnChildRelease" THEN "compare" ELSE "record"]
    /\ UNCHANGED <<gr, callLog, codecVars>>

\* if curCost > pr.maxDatapoints
Compare(t) ==
    /\ threads[t].pc = "compare"
    /\ threads' = [threads EXCEPT ![t].pc =
                     IF threads[t].curCost > pr.maxDatapoints THEN "store" ELSE "unlock"]
    /\ UNCHANGED <<pr, gr, callLog, codecVars>>

\* pr.maxDatapoints = curCost
Store(t) ==
    /\ threads[t].pc = "store"
    /\ pr' = [pr EXCEPT !.maxDatapoints = threads[t].curCost]
    /\ threads' = [threads EXCEPT ![t].pc = "unlock"]
    /\ UNCHANGED <<gr, callLog, codecVars>>

RecordCurCost(t) ==
    /\ threads[t].pc = "record"
    /\ pr' = [pr EXCEPT !.queryHisto = Append(@, threads[t].curCost)]
    /\ threads' = [threads EXCEPT ![t].pc = "unlock"]
    /\ UNCHANGED <<gr, callLog, codecVars>>

\* pr.queryHisto.RecordValue(float64(pr.maxDatapoints))
Record(t) ==
    /\ threads[t].pc = "record"
    /\ pr' = [pr EXCEPT !.queryHisto = Append(@, pr.maxDatapoints)]
    /\ threads' = [threads EXCEPT ![t].pc = "unlock"]
    /\ UNCHANGED <<gr, callLog, codecVars>>

\* pr.mu.Unlock(), and the call returns.
Unlock(t) ==
    /\ threads[t].pc = "unlock"
    /\ pr' = [pr EXCEPT !.mu = NoThread]
    /\ callLog' = [callLog EXCEPT
                     !.released = IF threads[t].op = "OnRelease" THEN @ + 1 ELSE @,
                     !.childReturned = IF threads[t].op = "OnChildRelease"
                                       THEN @ \cup {threads[t].curCost} ELSE @]
    /\ threads' = [threads EXCEPT ![t] = IdleThread]
    /\ UNCHANGED <<gr, codecVars>>

ReportCostAll(t, c) ==
    /\ threads[t].pc = "idle"
    /\ callLog.started < MaxCalls
    /\ gr' = [gr EXCEPT !.datapointsCounter = @ + CostInt64(c)]
    /\ callLog' = [callLog EXCEPT !.started = @ + 1, !.reported = Append(@, c)]
    /\ UNCHANGED <<pr, threads, codecVars>>

\* Goroutine t calls gr.ReportCost(c); the counter's Inc is atomic.
ReportCost(t, c) ==
    /\ threads[t].pc = "idle"
    /\ callLog.started < MaxCalls
    /\ gr' = [gr EXCEPT !.datapointsCounter = IF c > 0 THEN @ + CostInt64(c) ELSE @]
    /\ callLog' = [callLog EXCEPT !.started = @ + 1, !.reported = Append(@, c)]
    /\ UNCHANGED <<pr, threads, codecVars>>

NextReporter ==
    \E t \in Threads :
       \/ \E c \in Costs : OnChildRelease(t, c)
       \/ \E c \in Costs : OnRelease(t, c)
       \/ \E c \in Costs : ReportCost(t, c)
       \/ Lock(t)
       \/ Compare(t)
       \/ Store(t)
       \/ Record(t)
       \/ Unlock(t)

SpecReporter == Init /\ [][NextReporter]_vars

(* ------------------ C15: the per-query maximum is kept ------------------- *)

MaxOf(S) == CHOOSE x \in S : \A y \in S : y <= x

\* Some goroutine is inside OnChildRelease.
ChildReleaseInProgress == \E t \in Threads : threads[t].op = "OnChildRelease"

\* C15: under every interleaving of OnChildRelease calls (with OnRelease and
\* ReportCost calls among them) maxDatapoints never decreases, and whenever no
\* OnChildRelease call is in progress it is the maximum of 0 and every cost
\* passed so far.
C15_KeepsMaximum ==
    [][/\ pr'.maxDatapoints >= pr.maxDatapoints
       /\ ~ChildReleaseInProgress' =>
             pr'.maxDatapoints = MaxOf({0} \cup callLog'.childCosts)]_vars

\* Goroutine 1 has stored its cost 2.0 and still holds the mutex while goroutine
\* 2 waits for it inside OnChildRelease(1.5), after an OnChildRelease(0.5) returned.
C15_Witness ==
    /\ threads[1].op = "OnChildRelease" /\ threads[1].pc = "unlock"
    /\ threads[1].curCost = 4 /\ pr.maxDatapoints = 4 /\ pr.mu = 1
    /\ threads[2].op = "OnChildRelease" /\ threads[2].pc = "lock"
    /\ threads[2].curCost = 3
    /\ callLog.childReturned = {1}

(* --------------- C16: OnRelease records the maximum once ----------------- *)

\* OnRelease calls that have recorded their sample and not yet returned.
ReleasesRecorded ==
    Cardinality({t \in Threads : threads[t].op = "OnRelease" /\ threads[t].pc = "unlock"})

\* C16: the step of OnRelease that records appends one sample, the maximum of 0
\* and the costs of the OnChildRelease calls that returned before it, whatever
\* curCost is; no step of an OnRelease call changes maxDatapoints, no other step
\* of any call adds a sample, and the histogram holds one sample per OnRelease
\* call that recorded.
C16_OnReleaseRecordsMaximum ==
    [][/\ \A t \in Threads :
             (threads[t].op = "OnRelease" /\ threads'[t] # threads[t]) =>
                /\ pr'.maxDatapoints = pr.maxDatapoints
                /\ IF threads[t].pc = "record"
                   THEN /\ pr'.queryHisto = Append(pr.queryHisto, pr.maxDatapoints)
                        /\ pr.maxDatapoints = MaxOf({0} \cup callLog.childReturned)
                   ELSE pr'.queryHisto = pr.queryHisto
       /\ Len(pr'.queryHisto) = callLog'.released + ReleasesRecorded']_vars

\* OnRelease(0.5) recorded the maximum 2.0 of two earlier OnChildRelease calls.
C16_Witness ==
    /\ \E t \in Threads : /\ threads[t].op = "OnRelease" /\ threads[t].pc = "unlock"
                          /\ threads[t].curCost = 1
    /\ pr.queryHisto = <<4>> /\ pr.maxDatapoints = 4
    /\ callLog.childReturned = {3, 4}

(* ------------------ C17: the global datapoints counter ------------------- *)

RECURSIVE SumSeq(_)
SumSeq(s) == IF s = <<>> THEN 0 ELSE Head(s) + SumSeq(Tail(s))

\* The costs of a list that are positive, and zero for the others.
PositiveCosts(s) == [k \in 1..Len(s) |-> IF s[k] > 0 THEN s[k] ELSE 0]

\* The positive costs of a list, each with its fraction dropped.
PositiveWholeCosts(s) == [k \in 1..Len(s) |-> IF s[k] > 0 THEN CostInt64(s[k]) ELSE 0]

\* C17 as stated: the counter is the sum of the positive costs reported (the
\* costs are held in halves, the counter in whole units).
C17_CounterIsSum == 2 * gr.datapointsCounter = SumSeq(PositiveCosts(callLog.reported))

\* C17 as amended: ReportCost(c) adds int64(c), c without its fraction, when
\* c > 0 and nothing when c <= 0; the counter is the sum of the positive costs
\* reported, each without its fraction, and never decreases.
C17_CounterIsWholeSum ==
    [][/\ gr'.datapointsCounter >= gr.datapointsCounter
       /\ gr'.datapointsCounter = SumSeq(PositiveWholeCosts(callLog'.reported))]_vars

\* ReportCost(1.5), ReportCost(-1.0) and ReportCost(2.0) left the counter at 3.
C17_Witness ==
    /\ callLog.reported = <<3, -2, 4>>
    /\ gr.datapointsCounter = 3

(* -------------------------- C18: record framing -------------------------- *)

\* The bits of a bitset holding the tags of list: uvarint of the largest tag,
\* then one bit per tag from 1 to the largest.
BitsetBits(list) ==
    LET max == SeqMax(list)
    IN  VarintBits(max) \o [i \in 1..max |-> IF i \in SeqRange(list) THEN 1 ELSE 0]

\* The bits of a list of bytes.
BytesBits(bytes) == Flatten([k \in 1..Len(bytes) |-> NumToBits(bytes[k], ByteBits)])

\* What follows the custom values of a record: the proto-changes bit alone when
\* it is 0; else the defaults bit, the bitset when that bit is 1, the payload
\* length and the payload.
FrameTail(rec) ==
    IF rec.protoChanges = 0 THEN <<0>>
    ELSE <<1, rec.defaults>>
         \o (IF rec.defaults = 1 THEN BitsetBits(rec.bitset) ELSE <<>>)
         \o VarintBits(Len(rec.payload)) \o BytesBits(rec.payload)

\* The length of the XOR-coded value at the head of x, for a field whose
\* previous XOR is prevXOR: opcode 0, 10 with the previous window, or 11 with
\* six bits of leading zeros, six of length and the meaningful bits.
ValueLen(x, prevXOR) ==
    IF Len(x) = 0 THEN 0
    ELSE IF x[1] = 0 THEN 1
    ELSE IF Len(x) < 2 THEN 0
    ELSE IF x[2] = 0
    THEN 2 + WordBits - LeadingAndTrailingZeros(prevXOR)[1]
           - LeadingAndTrailingZeros(prevXOR)[2]
    ELSE IF Len(x) < 14 THEN 0
    ELSE 14 + BitsToNum(SubSeq(x, 9, 14)) + 1

\* x holds exactly one XOR-coded value for each field state from k on.
RECURSIVE HoldsValues(_, _, _)
HoldsValues(x, states, k) ==
    IF k > Len(states) THEN x = <<>>
    ELSE /\ ValueLen(x, states[k].prevXOR) \in 1..Len(x)
         /\ HoldsValues(SubSeq(x, ValueLen(x, states[k].prevXOR) + 1, Len(x)), states, k + 1)

\* A generic field of message m differs from its value in message p.
GenericChanged(m, p) == \E t \in GenericFields : m.v[t] # p.v[t]

\* The bits between the more-data bit and the frame tail of the record written.
CustomBits(rec) == SubSeq(rec.bits, 2, Len(rec.bits) - Len(FrameTail(rec)))

\* The framing of the record a successful Encode step appends.
EncodeFramed ==
    (ret'.op = "Encode" /\ ret'.err = NoError /\ Len(hist') = Len(hist) + 1) =>
       /\ enc'.stream = enc.stream \o lastRecord'.bits
       /\ Len(lastRecord'.bits) >= 1 + Len(FrameTail(lastRecord'))
       /\ lastRecord'.bits[1] = 1
       /\ SubSeq(lastRecord'.bits,
                 Len(lastRecord'.bits) - Len(FrameTail(lastRecord')) + 1,
                 Len(lastRecord'.bits)) = FrameTail(lastRecord')
       /\ IF enc.hasWrittenFirstTSZ
          THEN HoldsValues(CustomBits(lastRecord'), enc.tszFields, 1)
          ELSE CustomBits(lastRecord') =
                  Flatten([k \in 1..Len(enc.tszFields) |->
                             hist'[Len(hist')].v[enc.tszFields[k].fieldNum]])
       /\ lastRecord'.defaults = 1 <=> Len(lastRecord'.bitset) > 0
       /\ lastRecord'.protoChanges = 0 <=>
             (enc.lastEncoded # Nil
                /\ ~GenericChanged(hist'[Len(hist')], hist[Len(hist)]))
       /\ enc.lastEncoded = Nil => lastRecord'.protoChanges = 1

\* C18: a successful Encode appends the more-data bit 1, then one value per
\* custom field (64 raw bits each in the first record after Reset, one
\* XOR-coded value each afterwards), then the proto-changes bit, which is 0 iff
\* lastEncoded was non-nil and no generic field differs from the record before;
\* proto-changes 1 is followed by the defaults bit, the bitset iff that bit is 1,
\* the uvarint payload length and that many payload bytes; the first record after
\* Reset has proto-changes 1 and a length-framed payload.
C18_RecordFraming == [][EncodeFramed]_vars

(* --------------------------- C19: minimal delta -------------------------- *)

\* The fields a marshaled payload carries.
PayloadFields(payload) ==
    LET m == UnmarshalMerge(NewMessage(VLSchema), payload).m
    IN  {t \in SchemaFields : m.v[t] # GetDefaultValue(t)} \cup m.unk

\* C19: in a record after the first, the payload carries a generic field iff the
\* field's value in the message differs from its value in the record before and
\* is not the default, so an unchanged generic field is never in the payload;
\* after the Encode lastEncoded holds the message's value of every generic field
\* (the custom fields were cleared from the message before the diff).
C19_MinimalDelta ==
    Len(hist) >= 2 =>
        \A t \in GenericFields :
            /\ t \in PayloadFields(lastRecord.payload) <=>
                  (/\ hist[Len(hist)].v[t] # hist[Len(hist) - 1].v[t]
                   /\ hist[Len(hist)].v[t] # GetDefaultValue(t))
            /\ GetFieldByNumber(enc.lastEncoded[1], t) = hist[Len(hist)].v[t]

(* --------------- C20: lastEncoded and the caller's message --------------- *)

\* C20: lastEncoded is a copy of its own, so messages encoded through one
\* message object, filled again before each Encode, are read back like messages
\* passed as distinct objects: Current() equals each message field by field,
\* and after each Encode lastEncoded holds that message's generic fields.
C20_LastEncodedIndependent ==
    /\ (Len(hist) >= 1 /\ Conforming(hist)) =>
          \A t \in GenericFields :
              GetFieldByNumber(enc.lastEncoded[1], t) = hist[Len(hist)].v[t]
    /\ (Reading /\ itRet.cut = 0 /\ Conforming(hist)) =>
          /\ it.err = NoError
          /\ itRet.count > 0 =>
                /\ it.lastIterated # Nil
                /\ FieldsMatch(it.lastIterated[1], hist[itRet.count])
          /\ it.done => itRet.count = Len(hist)

(* --------------- C21: Current() after a Next that fails ------------------ *)

\* C21: a Next that returns false, at the end of the stream or on an error
\* inside a record, leaves Current() as the latest Next that returned true left
\* it (nil when none did): no value of the failed record is visible.
C21_CurrentOnlySuccessful ==
    [][(Reading /\ itRet'.calls = itRet.calls + 1 /\ ~itRet'.ret) =>
          it'.lastIterated = it.lastIterated]_vars

(* ------------- C22: a schema with a 32-bit float custom field ------------ *)

\* A schema with a double, a string and a float field.
FloatSchema == <<1, 3, FloatField>>

F15 == FloatOf(22..29)

FMsg(lat, name, ratio) ==
    [v |-> (1 :> lat @@ 3 :> name @@ FloatField :> ratio), unk |-> {}]

FloatMsgs ==
    {FMsg(W0, <<>>, ZeroFloat), FMsg(W15, <<97>>, F15), FMsg(W15, <<97>>, ZeroFloat),
     FMsg(W10, <<>>, F15)}

\* enc.Reset(b, schema) with the float schema.
ResetFloat ==
    /\ Writing
    /\ enc' = ResetEncoder(enc, FloatSchema)
    /\ ret' = [op |-> "Reset", err |-> NoError, bytes |-> <<>>]
    /\ hist' = <<>>
    /\ lastRecord' = NoRecord
    /\ caller' = [caller EXCEPT !.distinct = TRUE,
                                !.dirtyReset = Len(hist) > 0 /\ ~enc.closed]
    /\ UNCHANGED <<it, itRet, bs, reporterVars>>

EncodeFloat ==
    /\ Writing
    /\ \E m \in FloatMsgs : EncodeCall(m, FALSE)
    /\ UNCHANGED <<it, itRet, bs, reporterVars>>

\* NewIterator over the bytes Bytes returned, with the float schema.
MakeIteratorFloat ==
    /\ Writing
    /\ ret.op = "Bytes"
    /\ ret.err = NoError
    /\ it' = NewIterator(ret.bytes, FloatSchema)
    /\ itRet' = [made |-> TRUE, cut |-> 0, ret |-> FALSE, count |-> 0, calls |-> 0]
    /\ UNCHANGED <<enc, ret, hist, lastRecord, caller, bs, reporterVars>>

NextFloat == ResetFloat \/ EncodeFloat \/ Bytes \/ MakeIteratorFloat \/ Next_

SpecFloat == Init /\ [][NextFloat]_vars

\* The encoder after it has encoded msgs, each a distinct object, from e on.
RECURSIVE EncodeAll(_, _)
EncodeAll(e, msgs) ==
    IF msgs = <<>> THEN e
    ELSE EncodeAll(EncodeRecord(e, Head(msgs), FALSE).e, Tail(msgs))

\* C22: over an uncut stream of records of the float schema, the k-th Next
\* returns true, has consumed exactly the bits the encoder wrote for records
\* 1..k, and Current() holds for every custom field, the float field included,
\* the value of message k (a float field's as float32).
C22_FloatInSync ==
    (Reading /\ it.schema = <<FloatSchema>> /\ itRet.calls \in 1..Len(hist)) =>
        /\ itRet.ret
        /\ it.pos = Len(EncodeAll(ResetEncoder(NewEncoder, FloatSchema),
                                  SubSeq(hist, 1, itRet.calls)).stream)
        /\ \A t \in {1, FloatField} :
              GetFieldByNumber(it.lastIterated[1], t) = hist[itRet.calls].v[t]

(* -------------- C23: encodeVarInt / readVarInt on all of uint64 ---------- *)

\* len(enc.varIntBuf)
VarIntBufLen == 8

\* byte(x): the low 8 bits of the word x; x & 0x7f: the low 7.
LowByte(x) == BitsToNum(SubSeq(x, WordBits - 7, WordBits))
Low7(x) == BitsToNum(SubSeq(x, WordBits - 6, WordBits))

\* binary.PutUvarint(buf, x) from index i on, buf of length n: the bytes written,
\* or a panic on the index past the end of buf.
RECURSIVE PutUvarintAt(_, _, _)
PutUvarintAt(n, x, i) ==
    LET more(r) == [panic |-> r.panic, bytes |-> <<Low7(x) + 128>> \o r.bytes]
    IN  IF i >= n THEN [panic |-> TRUE, bytes |-> <<>>]
        ELSE IF ShiftRight(x, 7) # ZeroWord
        THEN more(PutUvarintAt(n, ShiftRight(x, 7), i + 1))
        ELSE [panic |-> FALSE, bytes |-> <<LowByte(x)>>]

\* enc.encodeVarInt(x) for a uint64 x given as a word, on the stream s.
encodeVarIntWord(s, x) ==
    LET put(r) == [panic |-> r.panic,
                   stream |-> IF r.panic THEN s ELSE WriteBytes(s, r.bytes)]
    IN  put(PutUvarintAt(VarIntBufLen, x, 0))

\* binary.Uvarint(buf) as a word, for a buf whose last byte alone is below 0x80:
\* 0 when the value overflows 64 bits.
UvarintWord(buf) ==
    IF Len(buf) > 10 \/ (Len(buf) = 10 /\ buf[10] > 1) THEN ZeroWord
    ELSE [i \in 1..WordBits |->
            IF (WordBits - i) \div 7 < Len(buf)
            THEN (buf[(WordBits - i) \div 7 + 1] \div Pow2((WordBits - i) % 7)) % 2
            ELSE 0]

\* it.readVarInt() with the value as a word.
RECURSIVE readVarIntWordFrom(_, _)
readVarIntWordFrom(i, buf) ==
    LET got(r, b) ==
            IF r.err # NoError
            THEN [err |-> "error reading var int", val |-> ZeroWord, it |-> r.it]
            ELSE IF b \div 128 = 0
            THEN [err |-> NoError, val |-> UvarintWord(Append(buf, b)), it |-> r.it]
            ELSE readVarIntWordFrom(r.it, Append(buf, b))
        read(r) == got(r, BitsToNum(r.bits))
    IN  read(ReadByte(i))

readVarIntWord(i) == readVarIntWordFrom(i, <<>>)

\* Values of x: around the 1-, 2-, 7-, 8-, 9- and 10-byte limits of a varint.
VarintWords == {WordOf(S) : S \in SUBSET {0, 6, 7, 13, 14, 48, 55, 56, 62, 63}}

InitVarint ==
    /\ ReportersIdle
    /\ enc = NewEncoder
    /\ ret = [op |-> "NewEncoder", err |-> NoError, bytes |-> <<>>]
    /\ it = NoIterator
    /\ itRet = [made |-> FALSE, cut |-> 0, ret |-> FALSE, count |-> 0, calls |-> 0]
    /\ hist = <<>>
    /\ lastRecord = NoRecord
    /\ caller = [encodes |-> 0, distinct |-> TRUE, wasClosed |-> FALSE,
                 dirtyReset |-> FALSE]
    /\ bs \in {[pc |-> "args", x |-> x, prefix |-> p, stream |-> p, val |-> ZeroWord] :
                 x \in VarintWords, p \in BsPrefixes}

\* enc.encodeVarInt(x) on a stream holding bs.prefix.
VarintEncode ==
    LET wrote(r) ==
            bs' = [bs EXCEPT !.pc = IF r.panic THEN "panic" ELSE "encoded",
                             !.stream = r.stream]
    IN  /\ bs.pc = "args"
        /\ wrote(encodeVarIntWord(bs.prefix, bs.x))
        /\ UNCHANGED <<enc, ret, it, itRet, hist, lastRecord, caller, reporterVars>>

\* it.readVarInt() on the bytes encodeVarInt wrote.
VarintRead ==
    LET read(r) ==
            /\ it' = r.it
            /\ bs' = [bs EXCEPT !.pc = IF r.err = NoError THEN "read" ELSE "failed",
                                !.val = r.val]
    IN  /\ bs.pc = "encoded"
        /\ read(readVarIntWord([NewIterator(Rawbytes(bs.stream), VLSchema)
                                  EXCEPT !.pos = Len(bs.prefix)]))
        /\ UNCHANGED <<enc, ret, itRet, hist, lastRecord, caller, reporterVars>>

NextVarint == VarintEncode \/ VarintRead

SpecVarint == InitVarint /\ [][NextVarint]_vars

\* The 7-bit group j (0 the lowest) of the word x, and the groups x needs.
Group7(x, j) ==
    BitsToNum(SubSeq(x, IF j = 9 THEN 1 ELSE WordBits - 7 * j - 6, WordBits - 7 * j))
Groups7(x) ==
    IF x = ZeroWord THEN 1 ELSE (WordBits - 1 - LeadingAndTrailingZeros(x)[1]) \div 7 + 1

\* The standard LEB128 bytes of x as bits.
LEB128Bits(x) ==
    Flatten([j \in 1..Groups7(x) |->
               <<IF j < Groups7(x) THEN 1 ELSE 0>> \o NumToBits(Group7(x, j - 1), 7)])

\* C23: encodeVarInt(x) succeeds for every uint64 x and appends the LEB128 bytes
\* of x to the stream; readVarInt on them returns x and consumes just those
\* bytes.
C23_VarintFullRange ==
    bs.pc # "off" =>
      /\ bs.pc \notin {"panic", "failed"}
      /\ bs.pc \in {"encoded", "read"} => bs.stream = bs.prefix \o LEB128Bits(bs.x)
      /\ bs.pc = "read" => bs.val = bs.x /\ it.pos = Len(bs.stream)

(* ---------------- C24: float codec state in lock-step -------------------- *)

\* The iterator has returned true for each of the k >= 1 records encoded.
DecodedAll == Reading /\ Len(hist) >= 1 /\ itRet.count = Len(hist)

\* The 64 bits the float codec is given for field t of message m.
FloatBitsOf(m, t) == IF FieldType(t) = "float" THEN Float64(m.v[t]) ELSE m.v[t]

\* prevXOR after message k of h for field t: the value's own bits after the
\* first record, the XOR with the value before it afterwards.
LastXOR(h, t) ==
    IF Len(h) = 1 THEN FloatBitsOf(h[1], t)
    ELSE XorWord(FloatBitsOf(h[Len(h) - 1], t), FloatBitsOf(h[Len(h)], t))

\* C24: once the iterator has decoded the k records the encoder encoded, each
\* custom field's prevFloatBits and prevXOR are the same on both sides:
\* prevFloatBits the bits of the field in message k, prevXOR those bits when
\* k = 1 and the XOR of the field in messages k-1 and k otherwise; both sides
\* have left the raw 64-bit path of the first record, and the Next that decoded
\* record k has consumed exactly the bits the encoder wrote.
C24_FloatStateLockStep ==
    DecodedAll =>
      /\ it.consumedFirstMessage /\ enc.hasWrittenFirstTSZ
      /\ (itRet.ret /\ ~enc.closed) => it.pos = Len(enc.stream)
      /\ Len(it.customFields) = Len(enc.tszFields)
      /\ \A i \in 1..Len(enc.tszFields) :
            /\ it.customFields[i].fieldNum = enc.tszFields[i].fieldNum
            /\ it.customFields[i].prevFloatBits = enc.tszFields[i].prevFloatBits
            /\ it.customFields[i].prevXOR = enc.tszFields[i].prevXOR
            /\ enc.tszFields[i].prevFloatBits =
                  FloatBitsOf(hist[Len(hist)], enc.tszFields[i].fieldNum)
            /\ enc.tszFields[i].prevXOR = LastXOR(hist, enc.tszFields[i].fieldNum)

\* Three records were decoded, the latitude going 1.5, 10.0, 1.5 and the
\* longitude from 0 to a subnormal and back.
C24_Witness ==
    /\ DecodedAll /\ Len(hist) = 3
    /\ hist[1].v[1] = W15 /\ hist[2].v[1] = W10 /\ hist[3].v[1] = W15
    /\ hist[2].v[2] = WSub
    /\ it.customFields[1].prevXOR = XorWord(W10, W15)
    /\ it.customFields[2].prevXOR = WSub

(* ------------------- C25: the rolling messages agree --------------------- *)

\* The fields of the bound schema the float codec does not carry.
GenericOf(schema) == {t \in SeqRange(schema) : FieldType(t) \notin {"double", "float"}}

\* C25: once the iterator has decoded the k >= 1 records the encoder encoded
\* from distinct message objects, lastEncoded and lastIterated hold, for every
\* generic field of the schema, the value of that field in message k.
C25_RollingMessagesAgree ==
    (DecodedAll /\ caller.distinct) =>
        /\ enc.lastEncoded # Nil /\ it.lastIterated # Nil
        /\ \A t \in GenericOf(enc.schema[1]) :
              /\ GetFieldByNumber(enc.lastEncoded[1], t) = hist[Len(hist)].v[t]
              /\ GetFieldByNumber(it.lastIterated[1], t) = hist[Len(hist)].v[t]

\* Two records were decoded, the name going from "a" back to the default: both
\* rolling messages hold the default.
C25_Witness ==
    /\ DecodedAll /\ caller.distinct /\ Len(hist) = 2
    /\ hist[1].v[3] = <<97>> /\ hist[2].v[3] = <<>>
    /\ GetFieldByNumber(enc.lastEncoded[1], 3) = <<>>
    /\ GetFieldByNumber(it.lastIterated[1], 3) = <<>>

(* ------------- C26: custom fields only in the float codec ---------------- *)

\* The caller writes a custom field of the message object it passed first after
\* Reset; enc.lastEncoded points to that object.
FillFirst ==
    /\ Writing
    /\ ~enc.closed
    /\ enc.lastEncoded # Nil
    /\ \E x \in {W15, W10} :
          /\ GetFieldByNumber(enc.lastEncoded[1], 1) # x
          /\ enc' = [enc EXCEPT !.lastEncoded = <<SetFieldByNumber(@[1], 1, x)>>]
    /\ ret' = [op |-> "Fill", err |-> NoError, bytes |-> <<>>]
    /\ caller' = [caller EXCEPT !.distinct = FALSE]
    /\ UNCHANGED <<hist, lastRecord, it, itRet, bs, reporterVars>>

\* Encode of a message of the schema, an object the encoder has not seen.
EncodeFresh ==
    /\ Writing
    /\ \E m \in SchemaMsgs : EncodeCall(m, FALSE)
    /\ UNCHANGED <<it, itRet, bs, reporterVars>>

NextFill == Reset \/ EncodeFresh \/ FillFirst \/ Bytes \/ MakeIterator \/ Next_

SpecFill == Init /\ [][NextFill]_vars

\* C26: no record carries a custom field in its payload, its changed-fields
\* list or its defaults bitset, lastEncoded holds only defaults in the custom
\* fields, and after a successful Next Current() holds in every custom field
\* the value the float codec decoded for it in that record.
C26_CustomOnlyInFloatCodec ==
    /\ enc.lastEncoded # Nil =>
          \A t \in CustomFields :
              GetFieldByNumber(enc.lastEncoded[1], t) = GetDefaultValue(t)
    /\ \A t \in CustomFields :
          /\ t \notin PayloadFields(lastRecord.payload)
          /\ t \notin SeqRange(lastRecord.changed)
          /\ t \notin SeqRange(lastRecord.bitset)
    /\ (Reading /\ itRet.ret) =>
          \A k \in 1..Len(it.customFields) :
              GetFieldByNumber(it.lastIterated[1], it.customFields[k].fieldNum)
                = it.customFields[k].prevFloatBits

(* --------------- C27: the defaults bitset, record by record -------------- *)

\* The value of field t in Current(), the default before the first record.
CurrentValue(i, t) ==
    IF i.lastIterated = Nil THEN GetDefaultValue(t) ELSE GetFieldByNumber(i.lastIterated[1], t)

\* Field t after the payload of the last record encoded is merged into the
\* Current() of i, before any clearing.
MergedValue(i, t) ==
    IF lastRecord.protoChanges = 0 THEN CurrentValue(i, t)
    ELSE GetFieldByNumber(
           UnmarshalMerge(IF i.lastIterated = Nil THEN NewMessage(i.schema[1])
                          ELSE i.lastIterated[1], lastRecord.payload).m, t)

\* C27: the Next that decodes the last record encoded leaves in every generic
\* field the default when the record has proto-changes 1, defaults 1 and the
\* field in its own bitset, and the merged value otherwise (no field is
\* cleared); with defaults 1 the scratch list is that bitset, and otherwise it
\* stays as an earlier record left it and is not applied.
C27_BitsetPerRecord ==
    [][(Reading /\ itRet'.calls = itRet.calls + 1 /\ itRet'.ret
          /\ itRet'.count = Len(hist)) =>
         /\ \A t \in GenericFields :
               CurrentValue(it', t) =
                 IF /\ lastRecord.protoChanges = 1 /\ lastRecord.defaults = 1
                    /\ t \in SeqRange(lastRecord.bitset)
                 THEN GetDefaultValue(t)
                 ELSE MergedValue(it, t)
         /\ IF lastRecord.protoChanges = 1 /\ lastRecord.defaults = 1
            THEN it'.bitsetValues = SortedSeq(SeqRange(lastRecord.bitset))
            ELSE it'.bitsetValues = it.bitsetValues]_vars

\* Record 2 set the name back to the default (bitset {3}); record 3 gave a new
\* name with defaults 0: the scratch list still holds 3 and the name is kept.
C27_Witness ==
    /\ Reading /\ itRet.ret /\ itRet.count = 3 /\ Len(hist) = 3
    /\ hist[1].v[3] = <<97>> /\ hist[2].v[3] = <<>> /\ hist[3].v[3] = <<98>>
    /\ caller.distinct
    /\ lastRecord.protoChanges = 1 /\ lastRecord.defaults = 0
    /\ it.bitsetValues = <<3>>
    /\ GetFieldByNumber(it.lastIterated[1], 3) = <<98>>

====
